---------------------------- MODULE Spec2Model ----------------------------
(***************************************************************************)
(* Model of generator/generate.py: the draw.io diagram parser              *)
(* (DrawIOParser), the relationship classifier (RelationshipClassifier)    *)
(* and the class model builder (CodeGenerator, ClassDef).                  *)
(*                                                                         *)
(* Python strings are modelled as sequences of characters, a character     *)
(* being a one-element name such as "a" or "=".  Substring tests, lower(), *)
(* upper(), capitalize(), split() and strip() are computed on those        *)
(* sequences the way Python computes them.                                 *)
(***************************************************************************)
EXTENDS Integers, Sequences, FiniteSets, TLC

VARIABLES
    pc,           \* position of the program
    cells,        \* DrawIOParser.parse: the mxCell records of the diagram
    ci,           \* DrawIOParser.parse: index of the first loop (over the cells)
    bi,           \* DrawIOParser.parse: index of the second loop (over the boxes)
    xi,           \* DrawIOParser.parse: index of the third loop (over the cells)
    text_labels,  \* DrawIOParser.parse: dict (x, y) -> text, in insertion order
    boxes,        \* DrawIOParser.parse: list of (id, x, y, w, h, value)
    id_to_class,  \* DrawIOParser.id_to_class
    edges,        \* DrawIOParser.edges
    classes,      \* CodeGenerator.classes: name -> ClassDef
    ei,           \* CodeGenerator.generate: index of the edge loop
    stdout,       \* the relationship lines printed by _process_relationship
    edge,         \* RelationshipClassifier.classify: its argument
    rel,          \* RelationshipClassifier.classify: its result
    name,         \* sanitize_class_name: its argument
    results       \* sanitize_class_name: the results of successive applications

vars == <<pc, cells, ci, bi, xi, text_labels, boxes, id_to_class, edges, classes, ei,
          stdout, edge, rel, name, results>>

\* Bounds of the inputs
MaxEdges == 2
MaxCells == 3
MaxNameLen == 4
Applications == 2

\* Python's None: a one-character string of a character no input holds, so that
\* it can be compared with any string
None == <<"None">>

(***************************************************************************)
(* Characters and strings                                                  *)
(***************************************************************************)

UpperAlpha == <<"A","B","C","D","E","F","G","H","I","J","K","L","M",
                "N","O","P","Q","R","S","T","U","V","W","X","Y","Z">>
LowerAlpha == <<"a","b","c","d","e","f","g","h","i","j","k","l","m",
                "n","o","p","q","r","s","t","u","v","w","x","y","z">>

\* The letter U+01C6 (dz), a character with three case forms: lower case
\* U+01C6 "dz", title case U+01C5 "Dz" and upper case U+01C4 "DZ".  Each is
\* ONE character of a string.
DigraphForms == {"dz", "Dz", "DZ"}

IndexIn(alpha, c) == CHOOSE i \in 1..Len(alpha) : alpha[i] = c
IsIn(alpha, c) == \E i \in 1..Len(alpha) : alpha[i] = c

\* str.lower() of one character
LowerChar(c) ==
    IF IsIn(UpperAlpha, c) THEN LowerAlpha[IndexIn(UpperAlpha, c)]
    ELSE IF c \in DigraphForms THEN "dz"
    ELSE c

\* str.upper() of one character
UpperChar(c) ==
    IF IsIn(LowerAlpha, c) THEN UpperAlpha[IndexIn(LowerAlpha, c)]
    ELSE IF c \in DigraphForms THEN "DZ"
    ELSE c

\* the title-case form of one character (the first character of capitalize())
TitleChar(c) ==
    IF IsIn(LowerAlpha, c) THEN UpperAlpha[IndexIn(LowerAlpha, c)]
    ELSE IF c \in DigraphForms THEN "Dz"
    ELSE c

IsSpace(c) == c = " "

Lower(s) == [i \in 1..Len(s) |-> LowerChar(s[i])]

\* Python's  sub in s
Contains(s, sub) ==
    \E i \in 0..(Len(s) - Len(sub)) :
        \A j \in 1..Len(sub) : s[i + j] = sub[j]

\* str.strip()
RECURSIVE LStrip(_)
LStrip(s) == IF s # <<>> /\ IsSpace(Head(s)) THEN LStrip(Tail(s)) ELSE s

RECURSIVE RStrip(_)
RStrip(s) ==
    IF s # <<>> /\ IsSpace(s[Len(s)]) THEN RStrip(SubSeq(s, 1, Len(s) - 1)) ELSE s

Strip(s) == RStrip(LStrip(s))

\* str.split(): the maximal runs of non-space characters, in order
RECURSIVE SplitFrom(_, _, _)
SplitFrom(s, cur, acc) ==
    IF s = <<>> THEN (IF cur = <<>> THEN acc ELSE Append(acc, cur))
    ELSE IF IsSpace(Head(s))
         THEN SplitFrom(Tail(s), <<>>, IF cur = <<>> THEN acc ELSE Append(acc, cur))
         ELSE SplitFrom(Tail(s), Append(cur, Head(s)), acc)

Split(s) == SplitFrom(s, <<>>, <<>>)

\* str.capitalize(): first character title-cased, the rest lower-cased
Capitalize(w) ==
    IF w = <<>> THEN <<>>
    ELSE <<TitleChar(w[1])>> \o Lower(Tail(w))

RECURSIVE Join(_)
Join(ws) == IF ws = <<>> THEN <<>> ELSE Head(ws) \o Join(Tail(ws))

(***************************************************************************)
(* The string literals of the program                                      *)
(***************************************************************************)

S_expands == <<"e","x","p","a","n","d","s">>
S_depends == <<"d","e","p","e","n","d","s">>
S_endfill == <<"e","n","d","f","i","l","l">>
S_endfill1 == <<"e","n","d","f","i","l","l","=","1">>
S_startfill1 == <<"s","t","a","r","t","f","i","l","l","=","1">>
S_startarrow_oval == <<"s","t","a","r","t","a","r","r","o","w","=","o","v","a","l">>
S_endarrow_oval == <<"e","n","d","a","r","r","o","w","=","o","v","a","l">>
S_dashed1 == <<"d","a","s","h","e","d","=","1">>
S_dashed == <<"d","a","s","h","e","d">>
S_endarrow == <<"e","n","d","a","r","r","o","w">>
S_endarrow_open == <<"e","n","d","a","r","r","o","w","=","o","p","e","n">>
S_endarrow_block == <<"e","n","d","a","r","r","o","w","=","b","l","o","c","k">>
S_endarrow_classic == <<"e","n","d","a","r","r","o","w","=","c","l","a","s","s","i","c">>
S_star == <<"*">>
S_text == <<"t","e","x","t",";">>
S_wrap == <<"w","h","i","t","e","S","p","a","c","e","=","w","r","a","p">>

(***************************************************************************)
(* RelationshipClassifier                                                  *)
(***************************************************************************)

Kinds == {"EXPANDS", "DEPENDS", "HAVE", "PART_OF", "UNKNOWN"}

\* the value of rel before classify has returned
NoKind == "NONE"

classify(e) ==
    LET label_lower == Lower(e.label)
        style_lower == Lower(e.style)
    IN  IF Contains(label_lower, S_expands) THEN "EXPANDS"
        ELSE IF Contains(label_lower, S_depends) THEN "DEPENDS"
        ELSE IF /\ (Contains(style_lower, S_endfill) \/ Contains(style_lower, S_startfill1))
                /\ (Contains(style_lower, S_endfill1) \/ Contains(style_lower, S_startarrow_oval))
             THEN "HAVE"
        ELSE IF /\ Contains(style_lower, S_dashed1)
                /\ (Contains(style_lower, S_endarrow_open) \/ Contains(style_lower, S_endarrow_block))
             THEN "EXPANDS"
        ELSE IF Contains(style_lower, S_dashed1) /\ Contains(style_lower, S_endarrow_classic)
             THEN "DEPENDS"
        ELSE IF /\ Contains(style_lower, S_endarrow)
                /\ ~Contains(style_lower, S_dashed)
                /\ (Contains(style_lower, S_endarrow_classic) \/ Contains(style_lower, S_endarrow_block))
             THEN "PART_OF"
        ELSE "UNKNOWN"

get_multiplicity(e) == IF Contains(e.label, S_star) THEN "*" ELSE "1"

has_black_circle(e) ==
    LET style == Lower(e.style)
    IN  Contains(style, S_startarrow_oval) \/ Contains(style, S_endarrow_oval)


(***************************************************************************)
(* ClassDef                                                                *)
(***************************************************************************)

\* ClassDef(name=class_name): extends = None, fields = []
NewClassDef(n) == [name |-> n, extends |-> None, fields |-> <<>>]

\* a field is the tuple (field_type, field_name, is_list)
HasField(cd, field_name) == \E i \in 1..Len(cd.fields) : cd.fields[i][2] = field_name

\* add_field without the test for an existing name
add_field_always(cd, field_type, field_name, is_list) ==
    [cd EXCEPT !.fields = Append(@, <<field_type, field_name, is_list>>)]

add_field(cd, field_type, field_name, is_list) ==
    IF ~HasField(cd, field_name)
    THEN [cd EXCEPT !.fields = Append(@, <<field_type, field_name, is_list>>)]
    ELSE cd

(***************************************************************************)
(* DrawIOParser                                                            *)
(***************************************************************************)

sanitize_class_name(n) ==
    LET parts == Split(n)
    IN  IF Len(parts) > 1
        THEN Join([i \in 1..Len(parts) |-> Capitalize(parts[i])])
        ELSE IF n # <<>> THEN <<UpperChar(n[1])>> \o Tail(n) ELSE <<>>

\* d[k] = v on a dict kept as a function
DictPut(d, k, v) == [x \in (DOMAIN d) \cup {k} |-> IF x = k THEN v ELSE d[x]]

\* text_labels[(x, y)] = text on a dict kept as the sequence of its items: an
\* existing key keeps its place and takes the new value, a new key goes last
LabelPut(tl, pos, text) ==
    IF \E i \in 1..Len(tl) : tl[i].pos = pos
    THEN [i \in 1..Len(tl) |-> IF tl[i].pos = pos THEN [pos |-> pos, text |-> text] ELSE tl[i]]
    ELSE Append(tl, [pos |-> pos, text |-> text])

\* the body of the first loop of parse, for one cell
scan_cell(tl, bx, cell) ==
    IF cell.geometry /\ cell.source = None /\ cell.target = None
    THEN IF Contains(cell.style, S_text) /\ Strip(cell.value) # <<>>
         THEN [text_labels |-> LabelPut(tl, <<cell.x, cell.y>>, Strip(cell.value)),
               boxes |-> bx]
         ELSE IF Contains(cell.style, S_wrap)
              THEN [text_labels |-> tl,
                    boxes |-> Append(bx, [id |-> cell.id, x |-> cell.x, y |-> cell.y,
                                          width |-> cell.width, height |-> cell.height,
                                          value |-> Strip(cell.value)])]
              ELSE [text_labels |-> tl, boxes |-> bx]
    ELSE [text_labels |-> tl, boxes |-> bx]

\* Within with strict comparisons
Within_strict(box, pos) ==
    /\ box.x < pos[1] /\ pos[1] < box.x + box.width
    /\ box.y < pos[2] /\ pos[2] < box.y + box.height

\* bx <= tx <= bx + bw and by <= ty <= by + bh
Within(box, pos) ==
    /\ box.x <= pos[1] /\ pos[1] <= box.x + box.width
    /\ box.y <= pos[2] /\ pos[2] <= box.y + box.height

\* the inner loop of the second loop: the text of the first label, in the
\* dict's order, whose origin is within the box; None when there is none
FirstLabelText(tl, box) ==
    IF \E i \in 1..Len(tl) : Within(box, tl[i].pos)
    THEN LET k == CHOOSE i \in 1..Len(tl) :
                      /\ Within(box, tl[i].pos)
                      /\ \A j \in 1..(i - 1) : ~Within(box, tl[j].pos)
         IN  tl[k].text
    ELSE None

\* the body of the second loop of parse, for one box
resolve_box(itc, tl, box) ==
    LET class_name == IF box.value # <<>> THEN box.value ELSE FirstLabelText(tl, box)
    IN  IF class_name # None /\ class_name # <<>>
        THEN DictPut(itc, box.id, sanitize_class_name(class_name))
        ELSE itc

\* the body of the third loop of parse, for one cell
extract_edge(es, cell) ==
    IF cell.source # None /\ cell.target # None
    THEN Append(es, [source_id |-> cell.source, target_id |-> cell.target,
                     label |-> Strip(cell.value), style |-> cell.style])
    ELSE es

EmptyDict == [x \in {} |-> None]

ScanCell ==
    /\ pc = "parse"
    /\ ci <= Len(cells)
    /\ LET r == scan_cell(text_labels, boxes, cells[ci])
       IN  /\ text_labels' = r.text_labels
           /\ boxes' = r.boxes
    /\ ci' = ci + 1
    /\ UNCHANGED <<pc, cells, bi, xi, id_to_class, edges, classes, ei, stdout,
                   edge, rel, name, results>>

ResolveBox ==
    /\ pc = "parse"
    /\ ci > Len(cells)
    /\ bi <= Len(boxes)
    /\ id_to_class' = resolve_box(id_to_class, text_labels, boxes[bi])
    /\ bi' = bi + 1
    /\ UNCHANGED <<pc, cells, ci, xi, text_labels, boxes, edges, classes, ei, stdout,
                   edge, rel, name, results>>

ExtractEdge ==
    /\ pc = "parse"
    /\ ci > Len(cells)
    /\ bi > Len(boxes)
    /\ xi <= Len(cells)
    /\ edges' = extract_edge(edges, cells[xi])
    /\ xi' = xi + 1
    /\ UNCHANGED <<pc, cells, ci, bi, text_labels, boxes, id_to_class, classes, ei,
                   stdout, edge, rel, name, results>>

\* parse() has returned
Parsed ==
    /\ pc = "parse"
    /\ ci > Len(cells)
    /\ bi > Len(boxes)
    /\ xi > Len(cells)

\* parse() run to its end on a list of cells
RECURSIVE ScanAll(_, _, _)
ScanAll(cs, tl, bx) ==
    IF cs = <<>> THEN [text_labels |-> tl, boxes |-> bx]
    ELSE LET r == scan_cell(tl, bx, Head(cs))
         IN  ScanAll(Tail(cs), r.text_labels, r.boxes)

RECURSIVE ResolveAll(_, _, _)
ResolveAll(bx, tl, itc) ==
    IF bx = <<>> THEN itc
    ELSE ResolveAll(Tail(bx), tl, resolve_box(itc, tl, Head(bx)))

RECURSIVE ExtractAll(_, _)
ExtractAll(cs, es) ==
    IF cs = <<>> THEN es ELSE ExtractAll(Tail(cs), extract_edge(es, Head(cs)))

parse(cs) ==
    LET r == ScanAll(cs, <<>>, <<>>)
    IN  [text_labels |-> r.text_labels,
         boxes |-> r.boxes,
         id_to_class |-> ResolveAll(r.boxes, r.text_labels, EmptyDict),
         edges |-> ExtractAll(cs, <<>>)]

(***************************************************************************)
(* CodeGenerator                                                           *)
(***************************************************************************)

\* set(self.id_to_class.values())
get_classes(itc) == {itc[k] : k \in DOMAIN itc}

\* id_to_class.get(id)
DictGet(d, k) == IF k \in DOMAIN d THEN d[k] ELSE None

\* s[0].lower() + s[1:]
LowerFirst(s) == <<LowerChar(s[1])>> \o Tail(s)

\* expands_effect that also adds a field for the parent
expands_effect_with_field(cls, source_class, target_class) ==
    [cls EXCEPT ![source_class] =
         add_field([@ EXCEPT !.extends = target_class],
                   target_class, LowerFirst(target_class), FALSE)]

\* expands_effect that keeps a parent already set
expands_effect_first_wins(cls, source_class, target_class) ==
    IF cls[source_class].extends = None
    THEN [cls EXCEPT ![source_class].extends = target_class]
    ELSE cls

\* rel_type == 'EXPANDS'
expands_effect(cls, source_class, target_class) ==
    [cls EXCEPT ![source_class].extends = target_class]

\* depends_effect with the type and the name of the field exchanged
depends_effect_swapped(cls, source_class, target_class) ==
    [cls EXCEPT ![source_class] =
         add_field(@, LowerFirst(target_class), target_class, FALSE)]

\* rel_type == 'DEPENDS'
depends_effect(cls, source_class, target_class) ==
    [cls EXCEPT ![source_class] =
         add_field(@, target_class, LowerFirst(target_class), FALSE)]

\* rel_type == 'HAVE'
have_effect(cls, source_class, target_class, multiplicity) ==
    LET is_list == (multiplicity = "*")
        field_name == IF is_list THEN LowerFirst(target_class) \o <<"s">>
                                 ELSE LowerFirst(target_class)
    IN  [cls EXCEPT ![source_class] = add_field(@, target_class, field_name, is_list)]

\* part_of_effect with the field on the source class, as for HAVE
part_of_effect_on_source(cls, source_class, target_class, multiplicity) ==
    LET is_list == (multiplicity = "*")
        field_name == IF is_list THEN LowerFirst(target_class) \o <<"s">>
                                 ELSE LowerFirst(target_class)
    IN  [cls EXCEPT ![source_class] = add_field(@, target_class, field_name, is_list)]

\* rel_type == 'PART_OF'
part_of_effect(cls, source_class, target_class, multiplicity) ==
    LET is_list == (multiplicity = "*")
        field_name == IF is_list THEN LowerFirst(source_class) \o <<"s">>
                                 ELSE LowerFirst(source_class)
    IN  [cls EXCEPT ![target_class] = add_field(@, source_class, field_name, is_list)]

\* the mutation of self.classes that _process_relationship makes for a
\* resolved edge
apply_relationship(cls, source_class, target_class, rel_type, multiplicity) ==
    IF rel_type = "EXPANDS" THEN expands_effect(cls, source_class, target_class)
    ELSE IF rel_type = "DEPENDS" THEN depends_effect(cls, source_class, target_class)
    ELSE IF rel_type = "HAVE"
    THEN have_effect(cls, source_class, target_class, multiplicity)
    ELSE IF rel_type = "PART_OF"
    THEN part_of_effect(cls, source_class, target_class, multiplicity)
    ELSE cls

\* the line _process_relationship prints for a resolved edge
RelationshipLine(source_class, rel_type, target_class, multiplicity) ==
    [source |-> source_class, rel |-> rel_type, target |-> target_class,
     multiplicity |-> multiplicity]

\* generate, after parse(): one empty ClassDef per class name
CreateClasses ==
    /\ Parsed
    /\ classes' = [n \in get_classes(id_to_class) |-> NewClassDef(n)]
    /\ pc' = "edges"
    /\ UNCHANGED <<cells, ci, bi, xi, text_labels, boxes, id_to_class, edges, ei,
                   stdout, edge, rel, name, results>>

\* one iteration of generate's loop over the edges: _process_relationship
ProcessRelationship ==
    /\ pc = "edges"
    /\ ei <= Len(edges)
    /\ LET e == edges[ei]
           source_class == DictGet(id_to_class, e.source_id)
           target_class == DictGet(id_to_class, e.target_id)
       IN  IF source_class = None \/ target_class = None
              \/ source_class = <<>> \/ target_class = <<>>
           THEN UNCHANGED <<classes, stdout>>
           ELSE LET rel_type == classify(e)
                    multiplicity == get_multiplicity(e)
                IN  /\ stdout' = Append(stdout, RelationshipLine(source_class, rel_type,
                                                                 target_class, multiplicity))
                    /\ classes' = apply_relationship(classes, source_class, target_class,
                                                     rel_type, multiplicity)
    /\ ei' = ei + 1
    /\ UNCHANGED <<pc, cells, ci, bi, xi, text_labels, boxes, id_to_class, edges,
                   edge, rel, name, results>>

\* generate, after the loop: the classes are handed to JavaGenerator
GenerateFiles ==
    /\ pc = "edges"
    /\ ei > Len(edges)
    /\ pc' = "done"
    /\ UNCHANGED <<cells, ci, bi, xi, text_labels, boxes, id_to_class, edges, classes,
                   ei, stdout, edge, rel, name, results>>

(***************************************************************************)
(* The classifier and the sanitizer, applied to an input                   *)
(***************************************************************************)

Classify ==
    /\ pc = "classify"
    /\ rel' = classify(edge)
    /\ pc' = "classified"
    /\ UNCHANGED <<cells, ci, bi, xi, text_labels, boxes, id_to_class, edges, classes,
                   ei, stdout, edge, name, results>>

\* sanitize_class_name applied to the name, then to its own result
Sanitize ==
    /\ pc = "sanitize"
    /\ Len(results) < Applications
    /\ results' = Append(results, sanitize_class_name(IF results = <<>> THEN name
                                                      ELSE results[Len(results)]))
    /\ UNCHANGED <<pc, cells, ci, bi, xi, text_labels, boxes, id_to_class, edges,
                   classes, ei, stdout, edge, rel, name>>

(***************************************************************************)
(* Inputs                                                                  *)
(***************************************************************************)

\* the sequences over S of length at most n
SeqsUpTo(S, n) == UNION {[1..k -> S] : k \in 0..n}

NoEdge == [source_id |-> None, target_id |-> None, label |-> <<>>, style |-> <<>>]

\* an mxCell with an mxGeometry child and no source or target
ShapeCell(id, value, style, x, y, w, h) ==
    [id |-> id, value |-> value, style |-> style, geometry |-> TRUE,
     x |-> x, y |-> y, width |-> w, height |-> h, source |-> None, target |-> None]

\* an mxCell with a source and a target (its mxGeometry carries no position)
EdgeCell(source, target, value, style) ==
    [id |-> <<"e">>, value |-> value, style |-> style, geometry |-> TRUE,
     x |-> 0, y |-> 0, width |-> 0, height |-> 0, source |-> source, target |-> target]

BoxStyle == <<"r","o","u","n","d","e","d","=","0",";","w","h","i","t","e","S","p","a","c","e","=","w","r","a","p",";">>
TextStyle == <<"t","e","x","t",";","h","t","m","l","=","1",";">>
TextWrapStyle == <<"t","e","x","t",";","w","h","i","t","e","S","p","a","c","e","=","w","r","a","p",";">>

\* the labels of the edges given to classify
ClassifierLabels ==
    { <<>>, <<"e","x","p","a","n","d","s">>, <<"E","x","p","a","n","d","s">>, <<"E","X","P","A","N","D","S"," ","*">>, <<"D","e","p","e","n","d","s">>,
      <<"d","e","p","e","n","d","s"," ","o","n"," ","e","x","p","a","n","d","s">>, <<"0",".",".","*">>, <<"h","a","s">>, <<"1">> }

\* the style keys the styles given to classify are built from, as draw.io
\* writes them
StyleAtoms ==
    << <<"d","a","s","h","e","d","=","1">>, <<"d","a","s","h","e","d","=","0">>, <<"e","n","d","A","r","r","o","w","=","c","l","a","s","s","i","c">>, <<"e","n","d","A","r","r","o","w","=","b","l","o","c","k">>,
       <<"e","n","d","A","r","r","o","w","=","o","p","e","n">>, <<"e","n","d","F","i","l","l","=","1">>, <<"e","n","d","F","i","l","l","=","0">>, <<"s","t","a","r","t","F","i","l","l","=","1">>,
       <<"s","t","a","r","t","A","r","r","o","w","=","o","v","a","l">> >>

\* the style holding the atoms of I, in order, each followed by ";"
RECURSIVE StyleOf(_, _)
StyleOf(I, k) ==
    IF k > Len(StyleAtoms) THEN <<>>
    ELSE (IF k \in I THEN StyleAtoms[k] \o <<";">> ELSE <<>>) \o StyleOf(I, k + 1)

ClassifierStyles == {StyleOf(I, 1) : I \in SUBSET (1..Len(StyleAtoms))}

ClassifierEdges ==
    {[source_id |-> <<"1">>, target_id |-> <<"2">>, label |-> l, style |-> st] :
        l \in ClassifierLabels, st \in ClassifierStyles}

\* the characters of the names given to sanitize_class_name
NameChars == {"a", "B", " ", "dz", "1"}

Names == SeqsUpTo(NameChars, MaxNameLen)

\* (label, style) of the edges of the diagrams given to generate: one of each
\* kind, with and without "*"
EdgeLooks ==
    { <<<<"e","x","p","a","n","d","s">>, <<>>>>,
      <<<<" ","D","e","p","e","n","d","s"," ","*"," ">>, <<"d","a","s","h","e","d","=","1",";","e","n","d","A","r","r","o","w","=","c","l","a","s","s","i","c",";">>>>,
      <<<<>>, <<"e","n","d","A","r","r","o","w","=","c","l","a","s","s","i","c",";","e","n","d","F","i","l","l","=","1",";">>>>,
      <<<<"0",".",".","*">>, <<"s","t","a","r","t","A","r","r","o","w","=","o","v","a","l",";","s","t","a","r","t","F","i","l","l","=","1",";">>>>,
      <<<<>>, <<"e","n","d","A","r","r","o","w","=","c","l","a","s","s","i","c",";","h","t","m","l","=","1",";">>>>,
      <<<<"*">>, <<"e","n","d","A","r","r","o","w","=","b","l","o","c","k",";">>>>,
      <<<<"u","s","e","s">>, <<"e","n","d","A","r","r","o","w","=","n","o","n","e",";">>>> }

EdgeEnds ==
    { <<<<"1">>, <<"1">>>>, <<<<"1">>, <<"2">>>>,
      <<<<"1">>, <<"3">>>>, <<<<"3">>, <<"2">>>> }

EdgeCells == {EdgeCell(p[1], p[2], k[1], k[2]) : p \in EdgeEnds, k \in EdgeLooks}

\* boxes "b" and "bs", and a third box that is empty and holds no label
ShapesUnresolved ==
    << ShapeCell(<<"1">>, <<"b">>, BoxStyle, 0, 0, 2, 1),
       ShapeCell(<<"2">>, <<" ","b","s"," ">>, BoxStyle, 4, 0, 2, 1),
       ShapeCell(<<"3">>, <<>>, BoxStyle, 8, 0, 2, 1) >>

\* boxes "b" and "bs", and a third box named "b" by the label it holds
ShapesSameName ==
    << ShapeCell(<<"1">>, <<"b">>, BoxStyle, 0, 0, 2, 1),
       ShapeCell(<<"2">>, <<" ","b","s"," ">>, BoxStyle, 4, 0, 2, 1),
       ShapeCell(<<"3">>, <<>>, BoxStyle, 8, 0, 2, 1),
       ShapeCell(<<"4">>, <<"b">>, TextStyle, 9, 1, 1, 1) >>

GeneratorDiagrams ==
    {sh \o es : sh \in {ShapesUnresolved, ShapesSameName},
                es \in SeqsUpTo(EdgeCells, MaxEdges)}

\* the cells of the diagrams given to parse: an empty box (0,0,2,1), labels
\* within it, on its border and outside it, two labels at one position, a
\* box with inline text, a text cell with no text, an edge
ParserCells ==
    { ShapeCell(<<"1">>, <<>>, BoxStyle, 0, 0, 2, 1),
      ShapeCell(<<"2">>, <<" ","b"," ">>, BoxStyle, 5, 5, 2, 1),
      ShapeCell(<<"3">>, <<"a"," ","b">>, TextStyle, 1, 1, 1, 1),
      ShapeCell(<<"4">>, <<"c">>, TextStyle, 2, 1, 1, 1),
      ShapeCell(<<"5">>, <<"d">>, TextStyle, 1, 1, 1, 1),
      ShapeCell(<<"6">>, <<"e">>, TextStyle, 3, 0, 1, 1),
      ShapeCell(<<"7">>, <<" ">>, TextWrapStyle, 1, 0, 1, 1),
      EdgeCell(<<"1">>, <<"2">>, <<" ","h","a","s"," ">>, <<"e","n","d","A","r","r","o","w","=","c","l","a","s","s","i","c",";">>) }

DistinctIds(cs) == \A i, j \in 1..Len(cs) : i # j => cs[i].id # cs[j].id

ParserDiagrams == {cs \in SeqsUpTo(ParserCells, MaxCells) : DistinctIds(cs)}

(***************************************************************************)
(* Specifications                                                          *)
(***************************************************************************)

\* generate(), from the return of parse() on
Init ==
    /\ cells \in GeneratorDiagrams
    /\ pc = "parse"
    /\ LET p == parse(cells)
       IN  /\ text_labels = p.text_labels
           /\ boxes = p.boxes
           /\ id_to_class = p.id_to_class
           /\ edges = p.edges
    /\ ci = Len(cells) + 1
    /\ bi = Len(boxes) + 1
    /\ xi = Len(cells) + 1
    /\ classes = EmptyDict
    /\ ei = 1
    /\ stdout = <<>>
    /\ edge = NoEdge
    /\ rel = NoKind
    /\ name = <<>>
    /\ results = <<>>

Next == CreateClasses \/ ProcessRelationship \/ GenerateFiles

Spec == Init /\ [][Next]_vars

\* parse(), from its first line on
InitParse ==
    /\ cells \in ParserDiagrams
    /\ pc = "parse"
    /\ text_labels = <<>>
    /\ boxes = <<>>
    /\ id_to_class = EmptyDict
    /\ edges = <<>>
    /\ ci = 1
    /\ bi = 1
    /\ xi = 1
    /\ classes = EmptyDict
    /\ ei = 1
    /\ stdout = <<>>
    /\ edge = NoEdge
    /\ rel = NoKind
    /\ name = <<>>
    /\ results = <<>>

NextParse == ScanCell \/ ResolveBox \/ ExtractEdge

SpecParse == InitParse /\ [][NextParse]_vars

\* classify on one edge
InitClassify ==
    /\ edge \in ClassifierEdges
    /\ pc = "classify"
    /\ rel = NoKind
    /\ cells = <<>>
    /\ text_labels = <<>>
    /\ boxes = <<>>
    /\ id_to_class = EmptyDict
    /\ edges = <<>>
    /\ ci = 1
    /\ bi = 1
    /\ xi = 1
    /\ classes = EmptyDict
    /\ ei = 1
    /\ stdout = <<>>
    /\ name = <<>>
    /\ results = <<>>

NextClassify == Classify

SpecClassify == InitClassify /\ [][NextClassify]_vars

\* sanitize_class_name on one name
InitSanitize ==
    /\ name \in Names
    /\ pc = "sanitize"
    /\ results = <<>>
    /\ edge = NoEdge
    /\ rel = NoKind
    /\ cells = <<>>
    /\ text_labels = <<>>
    /\ boxes = <<>>
    /\ id_to_class = EmptyDict
    /\ edges = <<>>
    /\ ci = 1
    /\ bi = 1
    /\ xi = 1
    /\ classes = EmptyDict
    /\ ei = 1
    /\ stdout = <<>>

NextSanitize == Sanitize

SpecSanitize == InitSanitize /\ [][NextSanitize]_vars

(***************************************************************************)
(* Properties                                                              *)
(***************************************************************************)

\* the rules of the classification, as predicates on an edge
LabelHas(e, word) == Contains(Lower(e.label), word)
StyleHas(e, marker) == Contains(Lower(e.style), marker)

RuleLabelExpands(e) == LabelHas(e, <<"e","x","p","a","n","d","s">>)
RuleLabelDepends(e) == LabelHas(e, <<"d","e","p","e","n","d","s">>)
RuleFilledTerminator(e) ==
    /\ StyleHas(e, <<"e","n","d","f","i","l","l">>) \/ StyleHas(e, <<"s","t","a","r","t","f","i","l","l","=","1">>)
    /\ StyleHas(e, <<"e","n","d","f","i","l","l","=","1">>) \/ StyleHas(e, <<"s","t","a","r","t","a","r","r","o","w","=","o","v","a","l">>)
IsDashed(e) == StyleHas(e, <<"d","a","s","h","e","d","=","1">>)
RuleDashedOpenOrBlock(e) ==
    IsDashed(e) /\ (StyleHas(e, <<"e","n","d","a","r","r","o","w","=","o","p","e","n">>) \/ StyleHas(e, <<"e","n","d","a","r","r","o","w","=","b","l","o","c","k">>))
RuleDashedClassic(e) == IsDashed(e) /\ StyleHas(e, <<"e","n","d","a","r","r","o","w","=","c","l","a","s","s","i","c">>)
RuleSolidClassicOrBlock(e) ==
    ~IsDashed(e) /\ (StyleHas(e, <<"e","n","d","a","r","r","o","w","=","c","l","a","s","s","i","c">>) \/ StyleHas(e, <<"e","n","d","a","r","r","o","w","=","b","l","o","c","k">>))

FirstMatch(e) ==
    IF RuleLabelExpands(e) THEN "EXPANDS"
    ELSE IF RuleLabelDepends(e) THEN "DEPENDS"
    ELSE IF RuleFilledTerminator(e) THEN "HAVE"
    ELSE IF RuleDashedOpenOrBlock(e) THEN "EXPANDS"
    ELSE IF RuleDashedClassic(e) THEN "DEPENDS"
    ELSE IF RuleSolidClassicOrBlock(e) THEN "PART_OF"
    ELSE "UNKNOWN"

\* C1: classify returns one of the five kinds, and the kind of the first
\* rule that matches, in the order label "expands", label "depends", filled
\* terminator, dashed with open/block end-arrow, dashed with classic
\* end-arrow, non-dashed with classic/block end-arrow, otherwise UNKNOWN.
C1_ClassifyFirstMatch ==
    pc = "classified" => rel \in Kinds /\ rel = FirstMatch(edge)

\* C9: an edge that matches none of the rules 1 to 4 and whose style does not
\* set dashed=1 and has a classic or block end-arrow is classified PART_OF.
C9_SolidArrowIsPartOf ==
    ( /\ pc = "classified"
      /\ ~RuleLabelExpands(edge) /\ ~RuleLabelDepends(edge)
      /\ ~RuleFilledTerminator(edge)
      /\ ~RuleDashedOpenOrBlock(edge) /\ ~RuleDashedClassic(edge)
      /\ ~StyleHas(edge, <<"d","a","s","h","e","d","=","1">>)
      /\ StyleHas(edge, <<"e","n","d","a","r","r","o","w","=","c","l","a","s","s","i","c">>) \/ StyleHas(edge, <<"e","n","d","a","r","r","o","w","=","b","l","o","c","k">>) )
    => rel = "PART_OF"

\* C7: sanitize_class_name applied to its own result returns that result.
C7_SanitizeIdempotent ==
    Len(results) >= 2 => results[2] = results[1]

\* the edge that the next iteration of generate's loop processes
Processing == pc = "edges" /\ ei <= Len(edges)
Resolves(e) == e.source_id \in DOMAIN id_to_class /\ e.target_id \in DOMAIN id_to_class
SourceClass(e) == id_to_class[e.source_id]
TargetClass(e) == id_to_class[e.target_id]
HasStar(e) == \E i \in 1..Len(e.label) : e.label[i] = "*"
FieldNames(cd) == {cd.fields[i][2] : i \in 1..Len(cd.fields)}

\* cls with field f put last on class c, unless c has a field of that name
Attempt(cls, c, f) ==
    IF f[2] \in FieldNames(cls[c]) THEN cls
    ELSE [cls EXCEPT ![c].fields = Append(@, f)]

\* C2: processing a resolved edge classified DEPENDS, HAVE or PART_OF
\* attempts to add exactly this field: on the source class for DEPENDS and
\* HAVE, on the target class for PART_OF; of the type of the class at the
\* other end; a collection named lower-first(other) + "s" iff the kind is not
\* DEPENDS and the label contains "*", otherwise a scalar named
\* lower-first(other).
C2_FieldOfRelationship ==
    [][ ( Processing /\ Resolves(edges[ei])
          /\ classify(edges[ei]) \in {"DEPENDS", "HAVE", "PART_OF"} ) =>
        LET e == edges[ei]
            kind == classify(e)
            receiver == IF kind = "PART_OF" THEN TargetClass(e) ELSE SourceClass(e)
            other == IF kind = "PART_OF" THEN SourceClass(e) ELSE TargetClass(e)
            collection == kind # "DEPENDS" /\ HasStar(e)
            lowerFirst == <<LowerChar(other[1])>> \o Tail(other)
            fieldName == IF collection THEN lowerFirst \o <<"s">> ELSE lowerFirst
        IN  classes' = Attempt(classes, receiver, <<other, fieldName, collection>>)
      ]_vars

\* C2 witness: a PART_OF edge with "*" has put a collection field of the
\* source's type on the target class, and a DEPENDS edge with "*" a scalar.
C2_Witness ==
    /\ pc = "done"
    /\ \E i \in 1..Len(edges) :
          /\ Resolves(edges[i]) /\ classify(edges[i]) = "PART_OF" /\ HasStar(edges[i])
          /\ \E k \in 1..Len(classes[TargetClass(edges[i])].fields) :
                LET f == classes[TargetClass(edges[i])].fields[k]
                IN  f[1] = SourceClass(edges[i]) /\ f[3] = TRUE
    /\ \E i \in 1..Len(edges) :
          /\ Resolves(edges[i]) /\ classify(edges[i]) = "DEPENDS" /\ HasStar(edges[i])
          /\ \E k \in 1..Len(classes[SourceClass(edges[i])].fields) :
                LET f == classes[SourceClass(edges[i])].fields[k]
                IN  f[1] = TargetClass(edges[i]) /\ f[3] = FALSE

FieldNamesDistinct ==
    \A c \in DOMAIN classes :
        \A i, j \in 1..Len(classes[c].fields) :
            i # j => classes[c].fields[i][2] # classes[c].fields[j][2]

\* C3: the field names of every ClassDef are pairwise distinct, and a step
\* keeps every field a class has, in place, and adds at most one field, of a
\* name the class did not have (adding an existing name is a no-op).
C3_FirstWriterWins ==
    /\ []FieldNamesDistinct
    /\ [][ \A c \in (DOMAIN classes) \cap (DOMAIN classes') :
             LET old == classes[c].fields
                 new == classes'[c].fields
             IN  /\ Len(new) \in {Len(old), Len(old) + 1}
                 /\ SubSeq(new, 1, Len(old)) = old
                 /\ Len(new) = Len(old) + 1 => new[Len(new)][2] \notin FieldNames(classes[c])
         ]_vars

\* C3 witness: two HAVE edges with the same ends and multiplicity 1 have
\* been processed, and the source class has exactly one field, named by the
\* target: the second write was dropped.
C3_Witness ==
    /\ pc = "done"
    /\ Len(edges) = 2
    /\ Resolves(edges[1])
    /\ edges[2] = edges[1]
    /\ classify(edges[1]) = "HAVE" /\ ~HasStar(edges[1])
    /\ SourceClass(edges[1]) # TargetClass(edges[1])
    /\ classes[SourceClass(edges[1])].fields =
          << <<TargetClass(edges[1]), LowerFirst(TargetClass(edges[1])), FALSE>> >>

\* C4: processing an edge classified EXPANDS changes no field list, and
\* processing an edge classified HAVE, DEPENDS or PART_OF changes no parent.
C4_Frame ==
    [][ (Processing /\ Resolves(edges[ei])) =>
        /\ classify(edges[ei]) = "EXPANDS" =>
              \A c \in DOMAIN classes : classes'[c].fields = classes[c].fields
        /\ classify(edges[ei]) \in {"HAVE", "DEPENDS", "PART_OF"} =>
              \A c \in DOMAIN classes : classes'[c].extends = classes[c].extends
      ]_vars

\* C4 witness: an EXPANDS edge and a HAVE edge have both been processed; a
\* parent is set and a field exists.
C4_Witness ==
    /\ pc = "done"
    /\ \E i, j \in 1..Len(edges) :
          /\ Resolves(edges[i]) /\ classify(edges[i]) = "EXPANDS"
          /\ Resolves(edges[j]) /\ classify(edges[j]) = "HAVE"
          /\ classes[SourceClass(edges[i])].extends # None
          /\ classes[SourceClass(edges[j])].fields # <<>>

\* C5: processing an edge whose source or target identifier is not in
\* id_to_class changes no ClassDef, prints a line, and ends normally.
C5_UnresolvedReported ==
    [][ (Processing /\ ~Resolves(edges[ei])) =>
        /\ classes' = classes
        /\ Len(stdout') = Len(stdout) + 1
        /\ ei' = ei + 1
      ]_vars

\* the labels whose origin lies within a box with the bounds of b
LabelsWithin(b) ==
    {i \in 1..Len(text_labels) :
        /\ b.x <= text_labels[i].pos[1] /\ text_labels[i].pos[1] <= b.x + b.width
        /\ b.y <= text_labels[i].pos[2] /\ text_labels[i].pos[2] <= b.y + b.height}

EmptyBoxes == {i \in 1..Len(boxes) : boxes[i].value = <<>>}

\* C6 as stated: a box with no inline text is resolved iff exactly one
\* label's origin lies within it, and then to that label's sanitized text.
C6_ExactlyOneLabel ==
    Parsed =>
        \A i \in EmptyBoxes :
            LET inside == LabelsWithin(boxes[i])
            IN  /\ boxes[i].id \in DOMAIN id_to_class <=> Cardinality(inside) = 1
                /\ Cardinality(inside) = 1 =>
                      \A k \in inside :
                          id_to_class[boxes[i].id] = sanitize_class_name(text_labels[k].text)

Min(S) == CHOOSE x \in S : \A y \in S : x <= y
Max(S) == CHOOSE x \in S : \A y \in S : x >= y

\* C6 amended: a box with no inline text is resolved iff at least one label's
\* origin lies within it, and then to the sanitized text of the first such
\* label in the order of the labels (labels with one origin are one entry of
\* text_labels, which holds the text of the last of them).
C6_FirstLabelWithin ==
    Parsed =>
        \A i \in EmptyBoxes :
            LET inside == LabelsWithin(boxes[i])
            IN  /\ boxes[i].id \in DOMAIN id_to_class <=> inside # {}
                /\ inside # {} =>
                      id_to_class[boxes[i].id] =
                          sanitize_class_name(text_labels[Min(inside)].text)

\* C6 witness: parse has resolved an empty box that holds two labels to the
\* sanitized text of the first, which differs from that of the second; one
\* of the labels lies on the border of the box.
C6_Witness ==
    /\ Parsed
    /\ \E i \in EmptyBoxes :
          LET inside == LabelsWithin(boxes[i])
              b == boxes[i]
          IN  /\ Cardinality(inside) = 2
              /\ boxes[i].id \in DOMAIN id_to_class
              /\ id_to_class[b.id] # sanitize_class_name(text_labels[Max(inside)].text)
              /\ \E k \in inside : text_labels[k].pos[1] = b.x + b.width

\* the edges that set the parent of class c
ExpandsEdgesOf(c) ==
    {i \in 1..Len(edges) :
        /\ Resolves(edges[i])
        /\ SourceClass(edges[i]) = c
        /\ classify(edges[i]) = "EXPANDS"}

\* C8: when all edges are processed, the parent of class c is the target
\* class of the last edge of the edge list that resolves on both ends, has
\* source class c and is classified EXPANDS, and is unset if there is none.
C8_LastParentWins ==
    pc = "done" =>
        \A c \in DOMAIN classes :
            classes[c].extends =
                IF ExpandsEdgesOf(c) = {} THEN None
                ELSE TargetClass(edges[Max(ExpandsEdgesOf(c))])

\* C8 witness: all edges are processed and some class has two EXPANDS edges
\* with different target classes.
C8_Witness ==
    /\ pc = "done"
    /\ \E c \in DOMAIN classes :
          \E i, j \in ExpandsEdgesOf(c) :
              i < j /\ TargetClass(edges[i]) # TargetClass(edges[j])

\* C10: from the creation of the ClassDefs on, the ClassDefs are exactly
\* the resolved class names, each under its own name, and every parent and
\* every field type names one of them.
C10_WellFormed ==
    pc \in {"edges", "done"} =>
        /\ DOMAIN classes = {id_to_class[k] : k \in DOMAIN id_to_class}
        /\ \A c \in DOMAIN classes :
              /\ classes[c].name = c
              /\ classes[c].extends = None \/ classes[c].extends \in DOMAIN classes
              /\ \A i \in 1..Len(classes[c].fields) :
                    classes[c].fields[i][1] \in DOMAIN classes

\* C10 witness: two shapes have the same class name, there are fewer classes
\* than resolved shapes, and a parent and a field have been set.
C10_Witness ==
    /\ pc = "done"
    /\ \E a, b \in DOMAIN id_to_class : a # b /\ id_to_class[a] = id_to_class[b]
    /\ Cardinality(DOMAIN classes) < Cardinality(DOMAIN id_to_class)
    /\ \E c \in DOMAIN classes : classes[c].extends # None
    /\ \E c \in DOMAIN classes : classes[c].fields # <<>>

=============================================================================
